---------------------------- MODULE Spec2Model ----------------------------
(***************************************************************************)
(* Model of crates/jxl-oxide-cli/src/output/ffmpeg_log.c:                  *)
(*                                                                         *)
(*   void jxl_oxide_ffmpeg_log_c(void *avcl, int level,                    *)
(*                               const char *fmt, va_list vl) {            *)
(*     char *buf = malloc(65536);                                          *)
(*     if (buf == NULL) { return; }                                        *)
(*     vsnprintf(buf, 65536, fmt, vl);                                     *)
(*     jxl_oxide_ffmpeg_log(avcl, level, buf);                             *)
(*     free(buf);                                                          *)
(*   }                                                                     *)
(*                                                                         *)
(* Several native threads run the callback concurrently over one heap.     *)
(* Texts are kept run-length encoded (a sequence of runs [c, n], adjacent  *)
(* runs of different characters) so that the real capacity 65536 and       *)
(* expansions longer than INT_MAX can be represented.                      *)
(***************************************************************************)
EXTENDS Integers, Sequences, FiniteSets, TLC

(* ------------------------------ bounds -------------------------------- *)
\* number of native threads that may be inside the callback at once
NumThreads == 2
\* number of distinct 65536-byte blocks the allocator can hand out
NumAddrs == 2

(* ------------------------- program constants -------------------------- *)
\* the size passed to malloc and to vsnprintf
BUF_SIZE == 65536
\* the largest value of the C type int (the return type of vsnprintf)
INT_MAX == 2147483647
INT_MIN == -INT_MAX - 1
\* the null pointer
NULL == 0

Threads == 1..NumThreads
Addrs == 1..NumAddrs

(* ------------------------- run-length texts --------------------------- *)
\* n copies of the character c
Rep(c, n) == IF n <= 0 THEN << >> ELSE << [c |-> c, n |-> n] >>

\* number of characters of a text
RECURSIVE TLen(_)
TLen(t) == IF t = << >> THEN 0 ELSE t[1].n + TLen(Tail(t))

\* concatenation, merging the runs that meet when they hold the same character
TCat(a, b) ==
    IF a = << >> THEN b
    ELSE IF b = << >> THEN a
    ELSE IF a[Len(a)].c = b[1].c
         THEN SubSeq(a, 1, Len(a) - 1)
                \o << [c |-> b[1].c, n |-> a[Len(a)].n + b[1].n] >>
                \o Tail(b)
         ELSE a \o b

\* the first k characters of a text (the whole text when it is shorter)
RECURSIVE TTake(_, _)
TTake(t, k) ==
    IF k <= 0 \/ t = << >> THEN << >>
    ELSE IF t[1].n >= k THEN << [c |-> t[1].c, n |-> k] >>
    ELSE << t[1] >> \o TTake(Tail(t), k - t[1].n)

\* the i-th character of a text, 1 <= i <= TLen(t)
RECURSIVE TAt(_, _)
TAt(t, i) == IF i <= t[1].n THEN t[1].c ELSE TAt(Tail(t), i - t[1].n)

\* the text of a sequence of characters
RECURSIVE FromSeq(_)
FromSeq(s) == IF s = << >> THEN << >> ELSE TCat(Rep(s[1], 1), FromSeq(Tail(s)))

(* ------------------------ printf conversions -------------------------- *)
Digits == << "0", "1", "2", "3", "4", "5", "6", "7", "8", "9" >>

\* decimal digits of a natural number, most significant first
RECURSIVE DecNat(_)
DecNat(n) ==
    IF n < 10 THEN << Digits[n + 1] >>
    ELSE DecNat(n \div 10) \o << Digits[(n % 10) + 1] >>

\* %d : signed decimal
ConvD(v) == FromSeq(IF v < 0 THEN << "-" >> \o DecNat(-v) ELSE DecNat(v))

\* %*d : a field of |w| characters at least; blanks on the left, or on the
\* right when the width argument is negative (it then acts as the - flag)
ConvWD(w, v) ==
    LET body == ConvD(v)
        aw   == IF w < 0 THEN -w ELSE w
        pad  == Rep(" ", aw - TLen(body))
    IN  IF w < 0 THEN TCat(body, pad) ELSE TCat(pad, body)

\* %s : the characters of the string argument
ConvS(s) == FromSeq(s)

\* a wide character with no multibyte form in the current locale
BADWC == "<EILSEQ>"

\* %ls : the wide string converted character by character; the conversion
\* fails (encoding error) when a wide character has no multibyte form
ConvLS(ws) ==
    IF \E i \in 1..Len(ws) : ws[i] = BADWC
    THEN [ok |-> FALSE, out |-> << >>]
    ELSE [ok |-> TRUE, out |-> FromSeq(ws)]

(* --------------------------- format strings --------------------------- *)
\* A format string is a sequence of directives; the variadic list is the
\* sequence of the arguments they consume, in order.
Lit(s) == [k |-> "lit", s |-> s]     \* ordinary characters, copied unchanged
Pct    == [k |-> "%%",  s |-> << >>] \* %%
D      == [k |-> "%d",  s |-> << >>] \* %d   consumes an int
WD     == [k |-> "%*d", s |-> << >>] \* %*d  consumes an int width and an int
S      == [k |-> "%s",  s |-> << >>] \* %s   consumes a char string
LS     == [k |-> "%ls", s |-> << >>] \* %ls  consumes a wide string

\* number of arguments a directive consumes
NArgs(d) == IF d.k = "%*d" THEN 2 ELSE IF d.k \in {"%d", "%s", "%ls"} THEN 1 ELSE 0

\* the characters one directive produces from the arguments at the head of vl
Conv(d, vl) ==
    CASE d.k = "lit" -> [ok |-> TRUE, out |-> FromSeq(d.s)]
      [] d.k = "%%"  -> [ok |-> TRUE, out |-> Rep("%", 1)]
      [] d.k = "%d"  -> [ok |-> TRUE, out |-> ConvD(vl[1])]
      [] d.k = "%*d" -> [ok |-> TRUE, out |-> ConvWD(vl[1], vl[2])]
      [] d.k = "%s"  -> [ok |-> TRUE, out |-> ConvS(vl[1])]
      [] d.k = "%ls" -> ConvLS(vl[1])

\* The formatting loop of the printf family: directives are processed left to
\* right; it stops with an error at a directive whose conversion fails
\* (encoding error) or whose output would take the count past INT_MAX, the
\* largest value the int result can hold.  out is what was produced so far.
RECURSIVE Format(_, _, _)
Format(fmt, vl, acc) ==
    IF fmt = << >> THEN [ok |-> TRUE, out |-> acc]
    ELSE LET d == fmt[1]
             r == Conv(d, vl)
         IN  IF ~r.ok THEN [ok |-> FALSE, out |-> acc]
             ELSE IF TLen(r.out) > INT_MAX - TLen(acc)
                  THEN [ok |-> FALSE, out |-> acc]
             ELSE Format(Tail(fmt), SubSeq(vl, NArgs(d) + 1, Len(vl)),
                         TCat(acc, r.out))

\* the full expansion of a (format, args) pair, when it has one
Expansion(fmt, vl) == Format(fmt, vl, << >>)

(* ------------------------------ memory -------------------------------- *)
\* The contents of a BUF_SIZE-byte block as a C string reader sees them:
\* txt is the bytes before the first NUL, nul says whether a NUL lies inside
\* the block (then TLen(txt) < BUF_SIZE; otherwise all BUF_SIZE bytes are
\* non-NUL and a reader runs past the end of the block).
Block(txt, nul) == [init |-> TRUE, txt |-> txt, nul |-> nul]

\* A block that malloc has just returned, or that was freed, and that nothing
\* has been stored in: its bytes are indeterminate.
Indeterminate == [init |-> FALSE, txt |-> << >>, nul |-> FALSE]

\* What indeterminate bytes may turn out to be when they are read: a line
\* left behind by an earlier use of the block, or BUF_SIZE bytes with no NUL
\* among them.
Garbage ==
    { Block(FromSeq(<< "o", "l", "d" >>), TRUE),
      Block(Rep("?", BUF_SIZE), FALSE) }

\* the C strings a reader may find in a block
ReadCStr(m) == IF m.init THEN { m } ELSE Garbage

\* vsnprintf as the pre-C99 _snprintf behaves: output that does not fit fills
\* all n bytes and no NUL is stored
vsnprintf_NoTerminator(old, n, f) ==
    IF f.ok /\ TLen(f.out) >= n
    THEN { [buf |-> Block(TTake(f.out, n), FALSE), ret |-> -1] }
    ELSE { [buf |-> Block(TTake(f.out, n - 1), TRUE), ret |-> TLen(f.out)] }

\* vsnprintf handed a size one too small: at most n-2 characters are stored
vsnprintf_OffByOne(old, n, f) ==
    { [buf |-> Block(TTake(f.out, n - 2), TRUE), ret |-> TLen(f.out)] }

\* vsnprintf(s, n, fmt, vl), given the block's contents old and the result f
\* of the formatting loop on (fmt, vl): the set of results it may produce,
\* each the new contents of the block and the int it returns.  On success at
\* most n-1 characters are stored, followed by a NUL, and the full length is
\* returned.  On failure a negative value is returned and the block is either
\* untouched or holds the output produced before the failure, cut to n-1
\* characters and terminated.
vsnprintf(old, n, f) ==
    IF n = 0 THEN { [buf |-> old, ret |-> IF f.ok THEN TLen(f.out) ELSE -1] }
    ELSE IF f.ok
         THEN { [buf |-> Block(TTake(f.out, n - 1), TRUE), ret |-> TLen(f.out)] }
         ELSE { [buf |-> old, ret |-> -1],
                [buf |-> Block(TTake(f.out, n - 1), TRUE), ret |-> -1] }

(* ------------------------------ callers ------------------------------- *)
\* The calls the native library makes: (avcl, level, fmt, vl).
Inputs == <<
    \* "%ls: %d%%" -> "err: 42%"
    [avcl |-> NULL, level |-> 16,
     fmt |-> << LS, Lit(<< ":", " " >>), D, Pct >>,
     vl  |-> << << "e", "r", "r" >>, 42 >>],
    \* the empty format
    [avcl |-> 1, level |-> INT_MIN, fmt |-> << >>, vl |-> << >>],
    \* exactly BUF_SIZE - 1 characters
    [avcl |-> 2, level |-> INT_MAX, fmt |-> << WD >>, vl |-> << BUF_SIZE - 1, -7 >>],
    \* "[%s]%*d", left-justified: exactly BUF_SIZE characters
    [avcl |-> 2, level |-> -8,
     fmt |-> << Lit(<< "[" >>), S, Lit(<< "]" >>), WD >>,
     vl  |-> << << "a", "b" >>, -(BUF_SIZE - 4), 5 >>],
    \* "a%*d" with width INT_MAX: INT_MAX + 1 characters
    [avcl |-> NULL, level |-> 0,
     fmt |-> << Lit(<< "a" >>), WD >>, vl |-> << INT_MAX, 1 >>],
    \* "x%ls" with a wide character that has no multibyte form
    [avcl |-> 1, level |-> 24,
     fmt |-> << Lit(<< "x" >>), LS >>, vl |-> << << "o", BADWC >> >>]
>>

InputIds == 1..Len(Inputs)

\* the formatting loop run on the arguments of each call
Formatted == [i \in InputIds |-> Expansion(Inputs[i].fmt, Inputs[i].vl)]

(* ------------------------------- state -------------------------------- *)
VARIABLES
    pc,     \* pc[t]: where thread t stands in jxl_oxide_ffmpeg_log_c
    inp,    \* inp[t]: the arguments of t's invocation (an index of Inputs), 0 outside
    buf,    \* buf[t]: the local pointer buf
    mem,    \* mem[a]: contents of heap block a
    live,   \* the blocks currently allocated
    sunk,   \* sunk[t]: what jxl_oxide_ffmpeg_log received in t's invocation
    hist,   \* hist[t]: how often t's invocation ran malloc, vsnprintf and free
    wild    \* TRUE once free or the sink was handed a block that is not allocated

vars == << pc, inp, buf, mem, live, sunk, hist, wild >>

NoSink == [n |-> 0, avcl |-> NULL, level |-> 0, ptr |-> NULL,
           line |-> Block(<< >>, TRUE), read |-> FALSE]
NoHist == [mallocs |-> 0, renders |-> 0, frees |-> 0]

Init ==
    /\ pc = [t \in Threads |-> "idle"]
    /\ inp = [t \in Threads |-> 0]
    /\ buf = [t \in Threads |-> NULL]
    /\ mem = [a \in Addrs |-> Indeterminate]
    /\ live = {}
    /\ sunk = [t \in Threads |-> NoSink]
    /\ hist = [t \in Threads |-> NoHist]
    /\ wild = FALSE

(* ------------------------------ actions ------------------------------- *)
\* line 6: the native library calls the callback with some arguments
Call(t) ==
    /\ pc[t] = "idle"
    /\ \E i \in InputIds : inp' = [inp EXCEPT ![t] = i]
    /\ pc' = [pc EXCEPT ![t] = "malloc"]
    /\ UNCHANGED << buf, mem, live, sunk, hist, wild >>

\* the NULL check of lines 8-10 left out: execution goes on to vsnprintf
MallocFail_NoCheck(t) ==
    /\ pc[t] = "malloc"
    /\ buf' = [buf EXCEPT ![t] = NULL]
    /\ hist' = [hist EXCEPT ![t].mallocs = @ + 1]
    /\ pc' = [pc EXCEPT ![t] = "vsnprintf"]
    /\ UNCHANGED << inp, mem, live, sunk, wild >>

\* malloc is tried again for as long as it returns NULL
MallocFail_Retry(t) ==
    /\ pc[t] = "malloc"
    /\ buf' = [buf EXCEPT ![t] = NULL]
    /\ hist' = [hist EXCEPT ![t].mallocs = 1 - @]
    /\ UNCHANGED << pc, inp, mem, live, sunk, wild >>

\* lines 7-10: malloc returns NULL and the function returns at once
MallocFail(t) ==
    /\ pc[t] = "malloc"
    /\ buf' = [buf EXCEPT ![t] = NULL]
    /\ hist' = [hist EXCEPT ![t].mallocs = @ + 1]
    /\ pc' = [pc EXCEPT ![t] = "ret"]
    /\ UNCHANGED << inp, mem, live, sunk, wild >>

\* lines 7-8: malloc returns a block that is not allocated; its contents are
\* indeterminate
MallocOk(t) ==
    /\ pc[t] = "malloc"
    /\ \E a \in Addrs \ live :
          /\ buf' = [buf EXCEPT ![t] = a]
          /\ live' = live \cup {a}
          /\ mem' = [mem EXCEPT ![a] = Indeterminate]
    /\ hist' = [hist EXCEPT ![t].mallocs = @ + 1]
    /\ pc' = [pc EXCEPT ![t] = "vsnprintf"]
    /\ UNCHANGED << inp, sunk, wild >>

\* lines 13 and 14 exchanged: the block is freed before the sink is called
Render_FreeFirst(t) ==
    /\ pc[t] = "vsnprintf"
    /\ mem' = [mem EXCEPT ![buf[t]] = Indeterminate]
    /\ live' = live \ {buf[t]}
    /\ hist' = [hist EXCEPT ![t].renders = @ + 1, ![t].frees = @ + 1]
    /\ pc' = [pc EXCEPT ![t] = "sink"]
    /\ UNCHANGED << inp, buf, sunk, wild >>

\* line 12: vsnprintf(buf, 65536, fmt, vl); its result is discarded
Render(t) ==
    /\ pc[t] = "vsnprintf"
    /\ \E r \in vsnprintf(mem[buf[t]], BUF_SIZE, Formatted[inp[t]]) :
          mem' = [mem EXCEPT ![buf[t]] = r.buf]
    /\ hist' = [hist EXCEPT ![t].renders = @ + 1]
    /\ pc' = [pc EXCEPT ![t] = "sink"]
    /\ UNCHANGED << inp, buf, live, sunk, wild >>

\* the level is clamped to the range of the native library's level constants
SinkCall_LevelClamped(t) ==
    /\ pc[t] = "sink"
    /\ sunk' = [sunk EXCEPT ![t] =
                  [n |-> @.n + 1, avcl |-> Inputs[inp[t]].avcl,
                   level |-> IF Inputs[inp[t]].level < -8 THEN -8
                             ELSE IF Inputs[inp[t]].level > 56 THEN 56
                             ELSE Inputs[inp[t]].level,
                   ptr |-> buf[t],
                   line |-> @.line, read |-> FALSE]]
    /\ pc' = [pc EXCEPT ![t] = "in_sink"]
    /\ UNCHANGED << inp, buf, mem, live, hist, wild >>

\* line 13: jxl_oxide_ffmpeg_log(avcl, level, buf) is entered
SinkCall(t) ==
    /\ pc[t] = "sink"
    /\ sunk' = [sunk EXCEPT ![t] =
                  [n |-> @.n + 1, avcl |-> Inputs[inp[t]].avcl,
                   level |-> Inputs[inp[t]].level, ptr |-> buf[t],
                   line |-> @.line, read |-> FALSE]]
    /\ pc' = [pc EXCEPT ![t] = "in_sink"]
    /\ UNCHANGED << inp, buf, mem, live, hist, wild >>

\* the line is forwarded a second time after the sink has returned
SinkReturn_Twice(t) ==
    /\ pc[t] = "in_sink"
    /\ \E l \in ReadCStr(mem[sunk[t].ptr]) :
          sunk' = [sunk EXCEPT ![t].line = l, ![t].read = TRUE]
    /\ wild' = (wild \/ sunk[t].ptr \notin live)
    /\ pc' = [pc EXCEPT ![t] = IF sunk[t].n < 2 THEN "sink" ELSE "free"]
    /\ UNCHANGED << inp, buf, mem, live, hist >>

\* line 13: the sink reads the C string at the pointer it was given and returns
SinkReturn(t) ==
    /\ pc[t] = "in_sink"
    /\ \E l \in ReadCStr(mem[sunk[t].ptr]) :
          sunk' = [sunk EXCEPT ![t].line = l, ![t].read = TRUE]
    /\ wild' = (wild \/ sunk[t].ptr \notin live)
    /\ pc' = [pc EXCEPT ![t] = "free"]
    /\ UNCHANGED << inp, buf, mem, live, hist >>

\* line 14 left out: the function returns without freeing the block
Free_Leak(t) ==
    /\ pc[t] = "free"
    /\ pc' = [pc EXCEPT ![t] = "ret"]
    /\ UNCHANGED << inp, buf, mem, live, sunk, hist, wild >>

\* line 14: free(buf); the block's contents become indeterminate
Free(t) ==
    /\ pc[t] = "free"
    /\ live' = live \ {buf[t]}
    /\ mem' = [mem EXCEPT ![buf[t]] = Indeterminate]
    /\ wild' = (wild \/ buf[t] \notin live)
    /\ hist' = [hist EXCEPT ![t].frees = @ + 1]
    /\ pc' = [pc EXCEPT ![t] = "ret"]
    /\ UNCHANGED << inp, buf, sunk >>

\* lines 9, 15: the function returns to the native library; its locals are gone
Return(t) ==
    /\ pc[t] = "ret"
    /\ pc' = [pc EXCEPT ![t] = "idle"]
    /\ inp' = [inp EXCEPT ![t] = 0]
    /\ buf' = [buf EXCEPT ![t] = NULL]
    /\ sunk' = [sunk EXCEPT ![t] = NoSink]
    /\ hist' = [hist EXCEPT ![t] = NoHist]
    /\ UNCHANGED << mem, live, wild >>

\* the steps of the body of jxl_oxide_ffmpeg_log_c, once entered
Body(t) ==
    \/ MallocFail(t)
    \/ MallocOk(t)
    \/ Render(t)
    \/ SinkCall(t)
    \/ SinkReturn(t)
    \/ Free(t)
    \/ Return(t)

Next == \E t \in Threads : Call(t) \/ Body(t)

Spec == Init /\ [][Next]_vars

\* every thread inside the function keeps running (and the sink returns)
LiveSpec == Spec /\ \A t \in Threads : WF_vars(Body(t))

(* --------------------- vocabulary of the properties ------------------- *)
\* the arguments thread t was called with
Own(t) == Inputs[inp[t]]

\* thread t is inside the function and holds a block it obtained from malloc
Holding(t) == pc[t] \in {"vsnprintf", "sink", "in_sink", "free"}

\* every conversion of the pair can be carried out
RECURSIVE Valid(_, _)
Valid(fmt, vl) ==
    \/ fmt = << >>
    \/ /\ Conv(fmt[1], vl).ok
       /\ Valid(Tail(fmt), SubSeq(vl, NArgs(fmt[1]) + 1, Len(vl)))

\* the full printf-style expansion of a valid pair, whatever its length
RECURSIVE FullText(_, _)
FullText(fmt, vl) ==
    IF fmt = << >> THEN << >>
    ELSE TCat(Conv(fmt[1], vl).out,
              FullText(Tail(fmt), SubSeq(vl, NArgs(fmt[1]) + 1, Len(vl))))

\* the text has more than k characters
RECURSIVE LongerThan(_, _)
LongerThan(t, k) ==
    /\ t # << >>
    /\ \/ t[1].n > k
       \/ LongerThan(Tail(t), k - t[1].n)

\* the positions up to k at which a run of the text starts
RECURSIVE RunStarts(_, _, _)
RunStarts(t, from, k) ==
    IF t = << >> \/ from > k THEN {}
    ELSE {from} \cup (IF t[1].n > k - from THEN {}
                      ELSE RunStarts(Tail(t), from + t[1].n, k))

\* m is exactly the first k characters of f, compared character by character
\* (both texts are constant between two consecutive run starts)
IsPrefix(m, f, k) ==
    /\ ~LongerThan(m, k)
    /\ k = 0 \/ (LongerThan(m, k - 1) /\ LongerThan(f, k - 1))
    /\ \A i \in RunStarts(m, 1, k) \cup RunStarts(f, 1, k) \cup {k} :
          i >= 1 => TAt(m, i) = TAt(f, i)

\* for each call: whether its arguments are valid, and their full expansion
IsValid == [i \in InputIds |-> Valid(Inputs[i].fmt, Inputs[i].vl)]
Full == [i \in InputIds |-> FullText(Inputs[i].fmt, Inputs[i].vl)]
\* the calls whose expansion is longer than BUF_SIZE - 1, than INT_MAX
Long == { i \in InputIds : IsValid[i] /\ LongerThan(Full[i], BUF_SIZE - 1) }
Huge == { i \in InputIds : IsValid[i] /\ LongerThan(Full[i], INT_MAX) }
Short == { i \in InputIds : IsValid[i] /\ ~LongerThan(Full[i], BUF_SIZE - 1) }

\* the sink of thread t's invocation has read its line
Forwarded(t) == pc[t] \in {"free", "ret"} /\ sunk[t].read

(* ------------------------------- claims ------------------------------- *)
\* C1: in every invocation the sink is called at most once, and when the
\* function returns it has been called exactly once if malloc succeeded and
\* not at all if malloc failed.
C1_SinkOnceOrNever ==
    \A t \in Threads :
        /\ sunk[t].n \in {0, 1}
        /\ pc[t] = "ret" => sunk[t].n = (IF buf[t] # NULL THEN 1 ELSE 0)

\* an invocation whose malloc succeeded has returned after one sink call
C1_Witness ==
    \E t \in Threads : pc[t] = "ret" /\ buf[t] # NULL /\ sunk[t].n = 1

\* C2: when malloc returns NULL the invocation goes straight to its return:
\* the sink is not called, nothing is rendered and nothing is freed.
C2_AllocFailureSilent ==
    \A t \in Threads :
        (hist[t].mallocs = 1 /\ buf[t] = NULL) =>
            /\ pc[t] = "ret"
            /\ sunk[t].n = 0
            /\ hist[t].renders = 0
            /\ hist[t].frees = 0
            /\ ENABLED Return(t)

\* an invocation whose malloc failed stands at its return
C2_Witness ==
    \E t \in Threads : pc[t] = "ret" /\ hist[t].mallocs = 1 /\ buf[t] = NULL

\* C3: a block obtained by an invocation is freed exactly once by the time it
\* returns, no free is handed a block that is not allocated (no double free),
\* and every allocated block belongs to an invocation still in progress.
C3_ReleasedExactlyOnce ==
    /\ ~wild
    /\ live = { buf[t] : t \in { u \in Threads : Holding(u) } }
    /\ \A t \in Threads :
          /\ hist[t].frees <= 1
          /\ pc[t] = "ret" =>
                /\ hist[t].frees = (IF buf[t] # NULL THEN 1 ELSE 0)
                /\ buf[t] \notin live \/ \E u \in Threads : u # t /\ Holding(u) /\ buf[u] = buf[t]
          /\ pc[t] = "idle" => hist[t].frees = 0 /\ buf[t] = NULL

\* an invocation has freed its block, returned, and nothing stays allocated
C3_Witness ==
    \E t \in Threads :
        pc[t] = "ret" /\ buf[t] # NULL /\ hist[t].frees = 1 /\ live = {}

C5_ExactExpansion ==
    \A t \in Threads :
        (Forwarded(t) /\ inp[t] \in Short) =>
            /\ sunk[t].line.nul
            /\ IsPrefix(sunk[t].line.txt, Full[inp[t]], TLen(Full[inp[t]]))

\* the sink has read "err: 42%", the empty line, and a line of exactly
\* BUF_SIZE - 1 characters, each in full
C5_Witness ==
    /\ \E t \in Threads :
          /\ Forwarded(t)
          /\ inp[t] = 1
          /\ sunk[t].line.txt = FromSeq(<< "e", "r", "r", ":", " ", "4", "2", "%" >>)
    /\ \E t \in Threads :
          /\ Forwarded(t)
          /\ inp[t] \in Short
          /\ \/ Own(t).fmt = << >> /\ sunk[t].line.txt = << >>
             \/ /\ TLen(sunk[t].line.txt) = BUF_SIZE - 1
                /\ TAt(sunk[t].line.txt, BUF_SIZE - 1) = "7"
                /\ TAt(sunk[t].line.txt, BUF_SIZE - 2) = "-"

\* C6: the context handle and the level the sink receives are the ones the
\* invocation was called with.
C6_ContextLevelForwarded ==
    \A t \in Threads :
        sunk[t].n >= 1 =>
            /\ sunk[t].avcl = Own(t).avcl
            /\ sunk[t].level = Own(t).level

\* the sink was called with a null context, and with the extreme levels
C6_Witness ==
    /\ \E t \in Threads : sunk[t].n = 1 /\ sunk[t].avcl = NULL
    /\ \E t \in Threads : sunk[t].n = 1 /\ sunk[t].level \in {INT_MIN, INT_MAX}

\* no two invocations in progress hold the same block
NoSharedBlock ==
    \A t, u \in Threads : (t # u /\ Holding(t) /\ Holding(u)) => buf[t] # buf[u]

\* C7 as stated: no two invocations in progress hold the same block, and the
\* line each sink call reads is what was rendered from that invocation's own
\* arguments, with its own context and level.
C7_NoCrossCallContamination ==
    /\ NoSharedBlock
    /\ \A t \in Threads :
          Forwarded(t) =>
              /\ sunk[t].line = Block(TTake(Formatted[inp[t]].out, BUF_SIZE - 1), TRUE)
              /\ sunk[t].avcl = Own(t).avcl
              /\ sunk[t].level = Own(t).level

\* C8: the sink runs only on a block that is allocated, after the one
\* vsnprintf call and before any free; and a free only follows a sink call
\* that has returned.
C8_StepOrder ==
    \A t \in Threads :
        /\ pc[t] = "in_sink" =>
              /\ sunk[t].ptr = buf[t]
              /\ buf[t] \in live
              /\ hist[t].mallocs = 1
              /\ hist[t].renders = 1
              /\ hist[t].frees = 0
        /\ sunk[t].n >= 1 => hist[t].renders = 1
        /\ hist[t].renders >= 1 => hist[t].mallocs = 1 /\ buf[t] # NULL
        /\ hist[t].frees >= 1 => sunk[t].n = 1 /\ sunk[t].read

\* a sink call is in progress while another invocation has already freed
C8_Witness ==
    \E t, u \in Threads :
        /\ pc[t] = "in_sink"
        /\ hist[t].renders = 1
        /\ hist[u].frees = 1

\* C9: every invocation that has been entered reaches its return.
C9_Terminates ==
    \A t \in Threads : (pc[t] = "malloc") ~> (pc[t] = "ret")

\* both ways out have been taken: one invocation returned after a failed
\* malloc, another after its free
C9_Witness ==
    \E t, u \in Threads :
        /\ pc[t] = "ret" /\ buf[t] = NULL
        /\ pc[u] = "ret" /\ hist[u].frees = 1

\* C10 as stated: whatever vsnprintf did, the line the sink reads is
\* terminated inside the BUF_SIZE-byte block and has at most BUF_SIZE - 1
\* characters.
C10_ForwardedLineTerminated ==
    \A t \in Threads :
        Forwarded(t) =>
            /\ sunk[t].line.nul
            /\ ~LongerThan(sunk[t].line.txt, BUF_SIZE - 1)

=============================================================================
